---------------------------- MODULE Spec2Model ----------------------------
(***************************************************************************)
(* Pebble Snowy display controller (hw/display/pebble_snowy_display.c).    *)
(*                                                                         *)
(* The device is the PSDisplayGlobals structure; every callback of the     *)
(* device (byte transfer, chip select, reset pin, clock pin, renderer      *)
(* update, invalidate) is one action.  The handlers are written as         *)
(* operators from a device record to a device record, statement by         *)
(* statement, so that the order of the assignments in the C code is kept.  *)
(*                                                                         *)
(* Geometry (rows, columns, padding rows, splash rectangle) and the size   *)
(* of the programming header are scaled down; the code is parametric in    *)
(* them (SNOWY_NUM_ROWS = 172, SNOWY_NUM_COLS = 148, top padding 17,       *)
(* bottom padding 16, sizeof(prog_header) = 256 in the source).            *)
(***************************************************************************)
EXTENDS Integers, Sequences, FiniteSets, TLC

(***************************************************************************)
(* Bounds of the model.                                                    *)
(***************************************************************************)
\* scaled geometry: #define SNOWY_NUM_ROWS 172, SNOWY_NUM_COLS 148
SNOWY_NUM_ROWS == 2
SNOWY_NUM_COLS == 2
\* scaled padding: SNOWY_ROWS_SKIPPED_AT_TOP 17, SNOWY_ROWS_SKIPPED_AT_BOTTOM 16
SNOWY_ROWS_SKIPPED_AT_TOP == 2
SNOWY_ROWS_SKIPPED_AT_BOTTOM == 1
\* scaled splash rectangle: ps_display_draw_bitmap(s, logo, 8, 68, 128, 32)
SPLASH_WIDTH == 1
SPLASH_HEIGHT == 1
\* scaled sizeof(prog_header) (256 in the source)
PROG_HEADER_SIZE == 32
\* the clock counter is a uint32_t; the host stops clocking at this count
MaxSclkCount == 51
\* the host issues at most this many command opcodes
MaxCmds == 2

SNOWY_BYTES_PER_ROW == SNOWY_NUM_COLS
\* the splash rectangle lies inside the panel, away from its first column and
\* its first row; scaled, it ends at the last column and the last row
SPLASH_X_OFFSET == SNOWY_NUM_COLS - SPLASH_WIDTH
SPLASH_Y_OFFSET == SNOWY_NUM_ROWS - SPLASH_HEIGHT
SNOWY_LINE_DATA_LEN ==
    SNOWY_ROWS_SKIPPED_AT_TOP + SNOWY_NUM_ROWS + SNOWY_ROWS_SKIPPED_AT_BOTTOM
FB_SIZE == SNOWY_NUM_ROWS * SNOWY_BYTES_PER_ROW

(***************************************************************************)
(* Program constants.                                                      *)
(***************************************************************************)
SNOWY_COLOR_BLACK == 0
SNOWY_COLOR_WHITE == 252
SNOWY_COLOR_RED == 192
SNOWY_COLOR_GREEN == 48
SNOWY_COLOR_BLUE == 12

PSDISPLAYSTATE_PROGRAMMING == "PROGRAMMING"
PSDISPLAYSTATE_ACCEPTING_CMD == "ACCEPTING_CMD"
PSDISPLAYSTATE_ACCEPTING_PARAM == "ACCEPTING_PARAM"
PSDISPLAYSTATE_ACCEPTING_SCENE_BYTE == "ACCEPTING_SCENE_BYTE"
PSDISPLAYSTATE_ACCEPTING_LINENO == "ACCEPTING_LINENO"
PSDISPLAYSTATE_ACCEPTING_DATA == "ACCEPTING_DATA"

PSDisplayState ==
    { PSDISPLAYSTATE_PROGRAMMING, PSDISPLAYSTATE_ACCEPTING_CMD,
      PSDISPLAYSTATE_ACCEPTING_PARAM, PSDISPLAYSTATE_ACCEPTING_SCENE_BYTE,
      PSDISPLAYSTATE_ACCEPTING_LINENO, PSDISPLAYSTATE_ACCEPTING_DATA }

PSDISPLAY_CMD_SET_UNKNOWN == "CMD_SET_UNKNOWN"
PSDISPLAY_CMD_SET_0 == "CMD_SET_0"
PSDISPLAY_CMD_SET_1 == "CMD_SET_1"

PSDISPLAYCMD0_NULL == 0
PSDISPLAYCMD0_SET_PARAMETER == 1
PSDISPLAYCMD0_DISPLAY_OFF == 2
PSDISPLAYCMD0_DISPLAY_ON == 3
PSDISPLAYCMD0_DRAW_SCENE == 4

PSDISPLAYCMD1_FRAME_BEGIN == 0
PSDISPLAYCMD1_FRAME_DATA == 1
PSDISPLAYCMD1_FRAME_END == 2

PSDISPLAYSCENE_BLACK == 0
PSDISPLAYSCENE_SPLASH == 1
PSDISPLAYSCENE_UPDATE == 2
PSDISPLAYSCENE_ERROR == 3

\* if (s->sclk_count_with_cs_high > 50)
SCLK_EXIT_THRESHOLD == 50

\* level of an output line: qemu_set_irq(line, level); a line nobody has
\* driven yet has no level of the device's making
IRQ_UNDRIVEN == "undriven"
IRQ_LOW == "low"
IRQ_HIGH == "high"
qemu_set_irq(level) == IF level THEN IRQ_HIGH ELSE IRQ_LOW

\* the first level that a callback drives on a line: first is undriven when
\* the callback is entered
FirstDriven(first, level) ==
    IF first = IRQ_UNDRIVEN THEN qemu_set_irq(level) ELSE first
\* a callback is entered
Entered(s) == [s EXCEPT !.intn_first = IRQ_UNDRIVEN]
\* a callback entered in s returns in t: one that has not driven the line
\* leaves the record of the last one that did
Left(s, t) ==
    IF t.intn_first = IRQ_UNDRIVEN
    THEN [t EXCEPT !.intn_first = s.intn_first] ELSE t

(***************************************************************************)
(* The device state.                                                       *)
(***************************************************************************)
VARIABLES
    redraw,                   \* bool redraw
    framebuffer,              \* uint8_t framebuffer[ROWS * BYTES_PER_ROW]
    col_index,                \* int col_index
    row_index,                \* int row_index
    state,                    \* PSDisplayState state
    cmd,                      \* uint8_t cmd
    parameter,                \* uint32_t parameter, as [hi, lo]
    parameter_byte_offset,    \* uint32_t parameter_byte_offset
    scene,                    \* PDisplayScene scene
    sclk_value,               \* bool sclk_value
    cs_value,                 \* bool cs_value (low means asserted)
    sclk_count_with_cs_high,  \* uint32_t sclk_count_with_cs_high
    prog_header,              \* prog_header[0 .. prog_byte_offset-1]
    prog_byte_offset,         \* uint32_t prog_byte_offset
    cmd_set,                  \* PDisplayCmdSet cmd_set
    intn_output,              \* level last driven on intn_output (busy/done)
    done_output,              \* level last driven on done_output
    aborted,                  \* abort() was called
    fb_overrun,               \* a store went outside framebuffer[]
    ndetect,                  \* calls of the detector since the last reset
                              \* assertion
    intn_first,               \* the first level driven on intn_output by the
                              \* last callback that drove it
    \* history of the run (not device state)
    rx,                       \* bytes of the current unit (command, column)
    fb0,                      \* framebuffer when the current unit started
    ncmd,                     \* command opcodes dispatched so far
    nrise,                    \* rising clock edges seen with chip select
                              \* high since the last reset assertion
    detect_in,                \* the header the detector was last called on
    dropped,                  \* a byte was handed over and not taken, chip
                              \* select being high, since chip select or
                              \* reset was last driven
    \* static data, and the argument and the result of the pixel decoder
    logo,                     \* logo[0 .. LOGO_LEN-1] of the static array
    pixel_value,              \* uint8_t pixel_value of ps_display_get_rgb
    color                     \* PSDisplayPixelColor returned by it

devvars ==
    << redraw, framebuffer, col_index, row_index, state, cmd, parameter,
       parameter_byte_offset, scene, sclk_value, cs_value,
       sclk_count_with_cs_high, prog_header, prog_byte_offset, cmd_set,
       intn_output, done_output, aborted, fb_overrun, ndetect,
       intn_first >>

histvars == << rx, fb0, ncmd, nrise, detect_in, dropped >>

fnvars == << logo, pixel_value, color >>

vars == << devvars, histvars, fnvars >>

\* the device as one record, for the handlers
dev ==
    [ redraw |-> redraw, framebuffer |-> framebuffer, col_index |-> col_index,
      row_index |-> row_index, state |-> state, cmd |-> cmd,
      parameter |-> parameter, parameter_byte_offset |-> parameter_byte_offset,
      scene |-> scene, sclk_value |-> sclk_value, cs_value |-> cs_value,
      sclk_count_with_cs_high |-> sclk_count_with_cs_high,
      prog_header |-> prog_header, prog_byte_offset |-> prog_byte_offset,
      cmd_set |-> cmd_set, intn_output |-> intn_output,
      done_output |-> done_output, aborted |-> aborted,
      fb_overrun |-> fb_overrun, ndetect |-> ndetect,
      intn_first |-> intn_first ]

Store(r) ==
    /\ redraw' = r.redraw
    /\ framebuffer' = r.framebuffer
    /\ col_index' = r.col_index
    /\ row_index' = r.row_index
    /\ state' = r.state
    /\ cmd' = r.cmd
    /\ parameter' = r.parameter
    /\ parameter_byte_offset' = r.parameter_byte_offset
    /\ scene' = r.scene
    /\ sclk_value' = r.sclk_value
    /\ cs_value' = r.cs_value
    /\ sclk_count_with_cs_high' = r.sclk_count_with_cs_high
    /\ prog_header' = r.prog_header
    /\ prog_byte_offset' = r.prog_byte_offset
    /\ cmd_set' = r.cmd_set
    /\ intn_output' = r.intn_output
    /\ done_output' = r.done_output
    /\ aborted' = r.aborted
    /\ fb_overrun' = r.fb_overrun
    /\ ndetect' = r.ndetect
    /\ intn_first' = r.intn_first

(***************************************************************************)
(* Framebuffer.                                                            *)
(***************************************************************************)
\* a store of one byte at framebuffer[index]; outside the array the store is
\* undefined behaviour, which is recorded rather than given one outcome
FbStore(s, index, byte) ==
    IF index \in 0 .. FB_SIZE - 1
    THEN [s EXCEPT !.framebuffer[index] = byte % 256]
    ELSE [s EXCEPT !.fb_overrun = TRUE]

ps_display_set_pixel(s, x, y, pixel_byte) ==
    FbStore(s, y * SNOWY_BYTES_PER_ROW + x, pixel_byte)

\* memset(s->framebuffer, c, sizeof(s->framebuffer))
FbFill(s, c) == [s EXCEPT !.framebuffer = [i \in 0 .. FB_SIZE - 1 |-> c]]

\* bit n of a byte, counted from the top
BitFromTop(byte, n) == (byte \div (2 ^ (7 - n))) % 2

\* bit n of a byte
Bit(byte, n) == (byte \div (2 ^ n)) % 2

\* the initializer of logo[512]; logo[i] is element i + 1
PEBBLE_LOGO ==
    <<
       0, 0, 0, 0, 0, 0, 56, 0, 0, 28, 0, 0, 14, 0, 0, 0,
       0, 0, 0, 0, 0, 0, 56, 0, 0, 28, 0, 0, 14, 0, 0, 0,
       0, 0, 0, 0, 0, 0, 56, 0, 0, 28, 0, 0, 14, 0, 0, 0,
       0, 0, 0, 0, 0, 0, 56, 0, 0, 28, 0, 0, 14, 0, 0, 0,
       0, 0, 0, 0, 0, 0, 56, 0, 0, 28, 0, 0, 14, 0, 0, 0,
       0, 0, 0, 0, 0, 0, 56, 0, 0, 28, 0, 0, 14, 0, 0, 0,
       0, 0, 0, 0, 0, 0, 56, 0, 0, 28, 0, 0, 14, 0, 0, 0,
       0, 0, 7, 0, 224, 1, 56, 112, 0, 28, 56, 0, 14, 192, 3, 0,
       128, 227, 63, 0, 252, 15, 56, 254, 3, 28, 255, 1, 14, 248, 31, 0,
       128, 243, 127, 0, 254, 31, 56, 255, 15, 156, 255, 7, 14, 252, 63, 0,
       128, 59, 240, 0, 15, 60, 184, 3, 31, 220, 129, 15, 14, 30, 120, 0,
       128, 15, 224, 129, 3, 120, 248, 1, 28, 252, 0, 14, 14, 7, 240, 0,
       128, 15, 192, 131, 3, 112, 248, 0, 60, 124, 0, 30, 14, 7, 224, 0,
       128, 7, 128, 195, 1, 112, 120, 0, 56, 60, 0, 28, 142, 3, 224, 0,
       128, 3, 128, 195, 1, 126, 56, 0, 48, 28, 0, 24, 142, 3, 252, 0,
       128, 3, 0, 199, 193, 31, 56, 0, 112, 28, 0, 56, 142, 131, 63, 0,
       128, 3, 0, 199, 249, 3, 56, 0, 112, 28, 0, 56, 142, 243, 7, 0,
       128, 3, 0, 199, 127, 0, 56, 0, 112, 28, 0, 56, 142, 255, 0, 0,
       128, 3, 0, 199, 15, 0, 56, 0, 112, 28, 0, 56, 142, 31, 0, 0,
       128, 3, 128, 195, 1, 0, 56, 0, 48, 28, 0, 24, 142, 3, 0, 0,
       128, 7, 128, 195, 1, 0, 120, 0, 56, 60, 0, 28, 142, 3, 0, 0,
       128, 15, 192, 131, 3, 0, 248, 0, 56, 124, 0, 28, 14, 7, 0, 0,
       128, 15, 192, 129, 7, 112, 248, 1, 28, 252, 0, 14, 14, 15, 224, 0,
       128, 63, 240, 0, 15, 120, 184, 3, 31, 220, 129, 15, 14, 30, 240, 0,
       128, 243, 127, 0, 254, 63, 56, 255, 7, 156, 255, 3, 14, 252, 127, 0,
       128, 227, 63, 0, 248, 15, 56, 254, 3, 28, 255, 1, 14, 240, 31, 0,
       128, 3, 7, 0, 192, 1, 0, 112, 0, 0, 56, 0, 0, 128, 3, 0,
       128, 3, 0, 0, 0, 0, 0, 0, 0, 0, 0, 0, 0, 0, 0, 0,
       128, 3, 0, 0, 0, 0, 0, 0, 0, 0, 0, 0, 0, 0, 0, 0,
       128, 3, 0, 0, 0, 0, 0, 0, 0, 0, 0, 0, 0, 0, 0, 0,
       128, 3, 0, 0, 0, 0, 0, 0, 0, 0, 0, 0, 0, 0, 0, 0,
       128, 3, 0, 0, 0, 0, 0, 0, 0, 0, 0, 0, 0, 0, 0, 0
    >>

\* the bytes of logo[] that the splash blit reads: one bit for each pixel
LOGO_LEN == (SPLASH_WIDTH * SPLASH_HEIGHT + 7) \div 8

\* return logo;
ps_display_get_pebble_logo == logo

RECURSIVE DrawBitmapFrom(_, _, _, _, _, _, _)
DrawBitmapFrom(s, bits, x_offset, y_offset, width, pixels, i) ==
    IF i >= pixels THEN s
    ELSE LET value == Bit(bits[(i \div 8) + 1], i % 8) = 1
             x == (x_offset + (i % width)) % 256
             y == (y_offset + (i \div width)) % 256
             t == IF value THEN ps_display_set_pixel(s, x, y, SNOWY_COLOR_RED)
                  ELSE ps_display_set_pixel(s, x, y, SNOWY_COLOR_BLACK)
         IN DrawBitmapFrom(t, bits, x_offset, y_offset, width, pixels, i + 1)

ps_display_draw_bitmap(s, bits, x_offset, y_offset, width, height) ==
    DrawBitmapFrom(s, bits, x_offset, y_offset, width, width * height, 0)

(***************************************************************************)
(* Command set detection.                                                  *)
(*                                                                         *)
(* prog_header is kept as the sequence of the bytes captured so far,       *)
(* prog_header[0 .. prog_byte_offset-1] of the array: the bytes of the     *)
(* array at and after prog_byte_offset are never read (the detector writes *)
(* the terminating 0 at prog_byte_offset before it scans, and a transfer   *)
(* writes index prog_byte_offset before it advances).  Character i of the  *)
(* array is element i + 1 of the sequence.                                 *)
(***************************************************************************)
\* "Date:"
DATE_MARKER == <<68, 97, 116, 101, 58>>
\* "Date: Dec 10 2014 08:30"
DATE_STR_SET_0 ==
    <<68, 97, 116, 101, 58, 32, 68, 101, 99, 32, 49, 48, 32, 50, 48, 49, 52,
      32, 48, 56, 58, 51, 48>>
\* "Date: Sep 12 2014 16:56:21"
DATE_STR_SET_1 ==
    <<68, 97, 116, 101, 58, 32, 83, 101, 112, 32, 49, 50, 32, 50, 48, 49, 52,
      32, 49, 54, 58, 53, 54, 58, 50, 49>>

\* static const CommandSetInfo cmd_sets[]
cmd_sets ==
    << [date_str |-> DATE_STR_SET_0, cmd_set |-> PSDISPLAY_CMD_SET_0],
       [date_str |-> DATE_STR_SET_1, cmd_set |-> PSDISPLAY_CMD_SET_1] >>

\* strlen(header + i), the header being 0-terminated at index n
RECURSIVE StrLen(_, _, _)
StrLen(hdr, n, i) ==
    IF i >= n \/ hdr[i + 1] = 0 THEN 0 ELSE 1 + StrLen(hdr, n, i + 1)

\* !strncmp(header + i, lit, strlen(lit)), lit holding no 0
StrNEq(hdr, n, i, lit) ==
    \A j \in 1 .. Len(lit) : i + j - 1 < n /\ hdr[i + j] = lit[j]

\* for (n = 0; n < n_cmd_sets; n++): the first entry whose date matches
RECURSIVE MatchCmdSet(_, _, _, _, _)
MatchCmdSet(hdr, n, i, k, dflt) ==
    IF k > Len(cmd_sets) THEN dflt
    ELSE IF StrNEq(hdr, n, i, cmd_sets[k].date_str) THEN cmd_sets[k].cmd_set
    ELSE MatchCmdSet(hdr, n, i, k + 1, dflt)

\* ScanHeader looking for the marker at every byte
RECURSIVE ScanHeaderEveryByte(_, _, _, _)
ScanHeaderEveryByte(hdr, n, i, dflt) ==
    IF i >= n THEN dflt
    ELSE IF StrNEq(hdr, n, i, DATE_MARKER) THEN MatchCmdSet(hdr, n, i, 1, dflt)
    ELSE ScanHeaderEveryByte(hdr, n, i + 1, dflt)

\* for (int i = 2; i < s->prog_byte_offset; i++)
RECURSIVE ScanHeader(_, _, _, _)
ScanHeader(hdr, n, i, dflt) ==
    IF i >= n THEN dflt
    ELSE IF StrNEq(hdr, n, i, DATE_MARKER) THEN MatchCmdSet(hdr, n, i, 1, dflt)
    ELSE ScanHeader(hdr, n, i + StrLen(hdr, n, i) + 1, dflt)

\* ps_display_determine_command_set without a default dialect
ps_display_determine_command_set_no_default(s) ==
    LET off == IF s.prog_byte_offset >= PROG_HEADER_SIZE
               THEN PROG_HEADER_SIZE - 1 ELSE s.prog_byte_offset
        hdr == SubSeq(s.prog_header, 1, off)
    IN [s EXCEPT !.ndetect = s.ndetect + 1,
                 !.prog_byte_offset = off,
                 !.prog_header = hdr,
                 !.cmd_set = ScanHeader(hdr, off, 2, s.cmd_set)]

ps_display_determine_command_set(s) ==
    LET off == IF s.prog_byte_offset >= PROG_HEADER_SIZE
               THEN PROG_HEADER_SIZE - 1 ELSE s.prog_byte_offset
        hdr == SubSeq(s.prog_header, 1, off)
    IN [s EXCEPT !.ndetect = s.ndetect + 1,
                 !.prog_byte_offset = off,
                 !.prog_header = hdr,
                 !.cmd_set = ScanHeader(hdr, off, 2, PSDISPLAY_CMD_SET_1)]

(***************************************************************************)
(* The protocol state machine.                                             *)
(***************************************************************************)
ps_display_reset_state(s, assert_done) ==
    LET t == IF assert_done
             THEN [s EXCEPT !.intn_output = qemu_set_irq(FALSE),
                            !.intn_first = FirstDriven(@, FALSE)] ELSE s
    IN [t EXCEPT !.state = PSDISPLAYSTATE_ACCEPTING_CMD,
                 !.parameter_byte_offset = 0]

\* DrawScene with the colors of the update and error scenes exchanged
DrawSceneExchanged(s) ==
    CASE s.scene = PSDISPLAYSCENE_BLACK -> FbFill(s, SNOWY_COLOR_BLACK)
      [] s.scene = PSDISPLAYSCENE_SPLASH ->
            ps_display_draw_bitmap(s, ps_display_get_pebble_logo,
                                   SPLASH_X_OFFSET, SPLASH_Y_OFFSET,
                                   SPLASH_WIDTH, SPLASH_HEIGHT)
      [] s.scene = PSDISPLAYSCENE_UPDATE -> FbFill(s, SNOWY_COLOR_BLUE)
      [] s.scene = PSDISPLAYSCENE_ERROR -> FbFill(s, SNOWY_COLOR_GREEN)
      [] OTHER -> s

\* DrawScene clearing the framebuffer for a scene that it does not know
DrawSceneDefaultBlack(s) ==
    CASE s.scene = PSDISPLAYSCENE_BLACK -> FbFill(s, SNOWY_COLOR_BLACK)
      [] s.scene = PSDISPLAYSCENE_SPLASH ->
            ps_display_draw_bitmap(s, ps_display_get_pebble_logo,
                                   SPLASH_X_OFFSET, SPLASH_Y_OFFSET,
                                   SPLASH_WIDTH, SPLASH_HEIGHT)
      [] s.scene = PSDISPLAYSCENE_UPDATE -> FbFill(s, SNOWY_COLOR_GREEN)
      [] s.scene = PSDISPLAYSCENE_ERROR -> FbFill(s, SNOWY_COLOR_BLUE)
      [] OTHER -> FbFill(s, SNOWY_COLOR_BLACK)

\* case PSDISPLAYCMD0_DRAW_SCENE, entered in ACCEPTING_SCENE_BYTE
DrawScene(s) ==
    CASE s.scene = PSDISPLAYSCENE_BLACK -> FbFill(s, SNOWY_COLOR_BLACK)
      [] s.scene = PSDISPLAYSCENE_SPLASH ->
            ps_display_draw_bitmap(s, ps_display_get_pebble_logo,
                                   SPLASH_X_OFFSET, SPLASH_Y_OFFSET,
                                   SPLASH_WIDTH, SPLASH_HEIGHT)
      [] s.scene = PSDISPLAYSCENE_UPDATE -> FbFill(s, SNOWY_COLOR_GREEN)
      [] s.scene = PSDISPLAYSCENE_ERROR -> FbFill(s, SNOWY_COLOR_BLUE)
      [] OTHER -> s

ps_display_execute_current_cmd_set0(s) ==
    CASE s.cmd = PSDISPLAYCMD0_NULL -> ps_display_reset_state(s, TRUE)
      [] s.cmd = PSDISPLAYCMD0_SET_PARAMETER ->
            [s EXCEPT !.state = PSDISPLAYSTATE_ACCEPTING_PARAM,
                      !.parameter_byte_offset = 0]
      [] s.cmd = PSDISPLAYCMD0_DISPLAY_OFF -> ps_display_reset_state(s, TRUE)
      [] s.cmd = PSDISPLAYCMD0_DISPLAY_ON -> ps_display_reset_state(s, TRUE)
      [] s.cmd = PSDISPLAYCMD0_DRAW_SCENE ->
            IF s.state = PSDISPLAYSTATE_ACCEPTING_CMD
            THEN [s EXCEPT !.state = PSDISPLAYSTATE_ACCEPTING_SCENE_BYTE]
            ELSE IF s.state = PSDISPLAYSTATE_ACCEPTING_SCENE_BYTE
            THEN [ps_display_reset_state(DrawScene(s), TRUE)
                     EXCEPT !.redraw = TRUE]
            ELSE ps_display_reset_state(s, TRUE)
      [] OTHER -> ps_display_reset_state(s, TRUE)

\* ps_display_execute_current_cmd_set1 without its default branch
ps_display_execute_current_cmd_set1_no_default(s) ==
    CASE s.cmd = PSDISPLAYCMD1_FRAME_BEGIN -> s
      [] s.cmd = PSDISPLAYCMD1_FRAME_DATA ->
            [s EXCEPT !.state = PSDISPLAYSTATE_ACCEPTING_LINENO]
      [] s.cmd = PSDISPLAYCMD1_FRAME_END ->
            ps_display_reset_state([s EXCEPT !.redraw = TRUE], TRUE)
      [] OTHER -> s

\* ps_display_execute_current_cmd_set1 ending a frame without asking for a
\* redraw
ps_display_execute_current_cmd_set1_no_redraw(s) ==
    CASE s.cmd = PSDISPLAYCMD1_FRAME_BEGIN -> s
      [] s.cmd = PSDISPLAYCMD1_FRAME_DATA ->
            [s EXCEPT !.state = PSDISPLAYSTATE_ACCEPTING_LINENO]
      [] s.cmd = PSDISPLAYCMD1_FRAME_END -> ps_display_reset_state(s, TRUE)
      [] OTHER -> ps_display_reset_state(s, TRUE)

ps_display_execute_current_cmd_set1(s) ==
    CASE s.cmd = PSDISPLAYCMD1_FRAME_BEGIN -> s
      [] s.cmd = PSDISPLAYCMD1_FRAME_DATA ->
            [s EXCEPT !.state = PSDISPLAYSTATE_ACCEPTING_LINENO]
      [] s.cmd = PSDISPLAYCMD1_FRAME_END ->
            ps_display_reset_state([s EXCEPT !.redraw = TRUE], TRUE)
      [] OTHER -> ps_display_reset_state(s, TRUE)

\* TransferProgramming not looking at the capacity
TransferProgrammingUnbounded(s, data_byte) ==
    [s EXCEPT !.prog_header = Append(s.prog_header, data_byte),
              !.prog_byte_offset = s.prog_byte_offset + 1]

\* case PSDISPLAYSTATE_PROGRAMMING
TransferProgramming(s, data_byte) ==
    IF s.prog_byte_offset < PROG_HEADER_SIZE
    THEN [s EXCEPT !.prog_header = Append(s.prog_header, data_byte),
                   !.prog_byte_offset = s.prog_byte_offset + 1]
    ELSE s

\* TransferCmd leaving the interrupt alone
TransferCmdQuiet(s, data_byte) ==
    LET t == [s EXCEPT !.cmd = data_byte]
    IN IF t.cmd_set = PSDISPLAY_CMD_SET_0
       THEN ps_display_execute_current_cmd_set0(t)
       ELSE IF t.cmd_set = PSDISPLAY_CMD_SET_1
       THEN ps_display_execute_current_cmd_set1(t)
       ELSE [t EXCEPT !.aborted = TRUE]

\* case PSDISPLAYSTATE_ACCEPTING_CMD
TransferCmd(s, data_byte) ==
    LET t == [s EXCEPT !.cmd = data_byte, !.intn_output = qemu_set_irq(TRUE),
                                          !.intn_first = FirstDriven(@, TRUE)]
    IN IF t.cmd_set = PSDISPLAY_CMD_SET_0
       THEN ps_display_execute_current_cmd_set0(t)
       ELSE IF t.cmd_set = PSDISPLAY_CMD_SET_1
       THEN ps_display_execute_current_cmd_set1(t)
       ELSE [t EXCEPT !.aborted = TRUE]

\* A uint32_t is kept as its two 16-bit halves, [hi, lo], its value being
\* hi * 65536 + lo.
U32(hi, lo) == [hi |-> hi, lo |-> lo]

\* (x & ~(0xFF << 8k)) | (data_byte << 8k) on one 16-bit half, k in {0, 1}
SetHalfByte(x, k, data_byte) ==
    IF k = 0 THEN (x - (x % 256)) + data_byte
    ELSE (x % 256) + data_byte * 256

\* SetParameterByte taking the bytes high byte first
SetParameterByteHighFirst(p, offset, data_byte) ==
    CASE offset = 0 -> U32(SetHalfByte(p.hi, 1, data_byte), p.lo)
      [] offset = 1 -> U32(SetHalfByte(p.hi, 0, data_byte), p.lo)
      [] offset = 2 -> U32(p.hi, SetHalfByte(p.lo, 1, data_byte))
      [] offset = 3 -> U32(p.hi, SetHalfByte(p.lo, 0, data_byte))
      [] OTHER -> p

\* the four branches on parameter_byte_offset:
\*   (s->parameter & 0xFFFFFF00) | data_byte, ... | (data_byte << 8), ...
SetParameterByte(p, offset, data_byte) ==
    CASE offset = 0 -> U32(p.hi, SetHalfByte(p.lo, 0, data_byte))
      [] offset = 1 -> U32(p.hi, SetHalfByte(p.lo, 1, data_byte))
      [] offset = 2 -> U32(SetHalfByte(p.hi, 0, data_byte), p.lo)
      [] offset = 3 -> U32(SetHalfByte(p.hi, 1, data_byte), p.lo)
      [] OTHER -> p

\* case PSDISPLAYSTATE_ACCEPTING_PARAM
TransferParam(s, data_byte) ==
    LET t == [s EXCEPT !.parameter =
                 SetParameterByte(s.parameter, s.parameter_byte_offset,
                                  data_byte)]
        u == [t EXCEPT !.parameter_byte_offset = t.parameter_byte_offset + 1]
    IN IF u.parameter_byte_offset >= 4
       THEN ps_display_reset_state(u, TRUE) ELSE u

\* case PSDISPLAYSTATE_ACCEPTING_SCENE_BYTE
TransferSceneByte(s, data_byte) ==
    ps_display_execute_current_cmd_set0([s EXCEPT !.scene = data_byte])

\* TransferLineNo without the check for an invalid column index
TransferLineNoUnchecked(s, data) ==
    [s EXCEPT !.col_index = data,
              !.row_index = SNOWY_NUM_ROWS + SNOWY_ROWS_SKIPPED_AT_BOTTOM - 1,
              !.state = PSDISPLAYSTATE_ACCEPTING_DATA,
              !.intn_output = qemu_set_irq(TRUE),
              !.intn_first = FirstDriven(@, TRUE)]

\* TransferLineNo leaving the interrupt alone
TransferLineNoQuiet(s, data) ==
    LET col == IF data >= SNOWY_NUM_COLS THEN 0 ELSE data
    IN [s EXCEPT !.col_index = col,
                 !.row_index = SNOWY_NUM_ROWS + SNOWY_ROWS_SKIPPED_AT_BOTTOM - 1,
                 !.state = PSDISPLAYSTATE_ACCEPTING_DATA]

\* case PSDISPLAYSTATE_ACCEPTING_LINENO: the check is made on data, not on
\* data_byte
TransferLineNo(s, data) ==
    LET col == IF data >= SNOWY_NUM_COLS THEN 0 ELSE data
    IN [s EXCEPT !.col_index = col,
                 !.row_index = SNOWY_NUM_ROWS + SNOWY_ROWS_SKIPPED_AT_BOTTOM - 1,
                 !.state = PSDISPLAYSTATE_ACCEPTING_DATA,
                 !.intn_output = qemu_set_irq(TRUE),
                 !.intn_first = FirstDriven(@, TRUE)]

\* TransferData storing the column from the top down
TransferDataTopDown(s, data) ==
    IF s.row_index >= SNOWY_NUM_ROWS
    THEN [s EXCEPT !.row_index = s.row_index - 1]
    ELSE IF s.row_index >= 0
    THEN [FbStore(s, (SNOWY_NUM_ROWS - 1 - s.row_index) * SNOWY_BYTES_PER_ROW
                         + s.col_index, data)
             EXCEPT !.row_index = s.row_index - 1]
    ELSE IF s.row_index > -SNOWY_ROWS_SKIPPED_AT_TOP
    THEN [s EXCEPT !.row_index = s.row_index - 1]
    ELSE [s EXCEPT !.state = PSDISPLAYSTATE_ACCEPTING_LINENO,
                   !.intn_output = qemu_set_irq(FALSE),
                   !.intn_first = FirstDriven(@, FALSE)]

\* TransferData ending the column one byte early
TransferDataShort(s, data) ==
    IF s.row_index >= SNOWY_NUM_ROWS
    THEN [s EXCEPT !.row_index = s.row_index - 1]
    ELSE IF s.row_index >= 0
    THEN [FbStore(s, s.row_index * SNOWY_BYTES_PER_ROW + s.col_index, data)
             EXCEPT !.row_index = s.row_index - 1]
    ELSE IF s.row_index > -SNOWY_ROWS_SKIPPED_AT_TOP + 1
    THEN [s EXCEPT !.row_index = s.row_index - 1]
    ELSE [s EXCEPT !.state = PSDISPLAYSTATE_ACCEPTING_LINENO,
                   !.intn_output = qemu_set_irq(FALSE),
                   !.intn_first = FirstDriven(@, FALSE)]

\* TransferData going back to accepting commands at the end of a column
TransferDataEndsFrame(s, data) ==
    IF s.row_index >= SNOWY_NUM_ROWS
    THEN [s EXCEPT !.row_index = s.row_index - 1]
    ELSE IF s.row_index >= 0
    THEN [FbStore(s, s.row_index * SNOWY_BYTES_PER_ROW + s.col_index, data)
             EXCEPT !.row_index = s.row_index - 1]
    ELSE IF s.row_index > -SNOWY_ROWS_SKIPPED_AT_TOP
    THEN [s EXCEPT !.row_index = s.row_index - 1]
    ELSE ps_display_reset_state(s, TRUE)

\* case PSDISPLAYSTATE_ACCEPTING_DATA: data is stored into a uint8_t
TransferData(s, data) ==
    IF s.row_index >= SNOWY_NUM_ROWS
    THEN [s EXCEPT !.row_index = s.row_index - 1]
    ELSE IF s.row_index >= 0
    THEN [FbStore(s, s.row_index * SNOWY_BYTES_PER_ROW + s.col_index, data)
             EXCEPT !.row_index = s.row_index - 1]
    ELSE IF s.row_index > -SNOWY_ROWS_SKIPPED_AT_TOP
    THEN [s EXCEPT !.row_index = s.row_index - 1]
    ELSE [s EXCEPT !.state = PSDISPLAYSTATE_ACCEPTING_LINENO,
                   !.intn_output = qemu_set_irq(FALSE),
                   !.intn_first = FirstDriven(@, FALSE)]

\* ps_display_transfer not looking at chip select
ps_display_transfer_ungated(s, data) ==
    LET data_byte == data % 256
    IN CASE s.state = PSDISPLAYSTATE_PROGRAMMING ->
                  TransferProgramming(s, data_byte)
         [] s.state = PSDISPLAYSTATE_ACCEPTING_CMD ->
                  TransferCmd(s, data_byte)
         [] s.state = PSDISPLAYSTATE_ACCEPTING_PARAM ->
                  TransferParam(s, data_byte)
         [] s.state = PSDISPLAYSTATE_ACCEPTING_SCENE_BYTE ->
                  TransferSceneByte(s, data_byte)
         [] s.state = PSDISPLAYSTATE_ACCEPTING_LINENO ->
                  TransferLineNo(s, data)
         [] s.state = PSDISPLAYSTATE_ACCEPTING_DATA ->
                  TransferData(s, data)

ps_display_transfer(s, data) ==
    LET data_byte == data % 256
    IN IF s.cs_value THEN s
       ELSE CASE s.state = PSDISPLAYSTATE_PROGRAMMING ->
                     TransferProgramming(s, data_byte)
              [] s.state = PSDISPLAYSTATE_ACCEPTING_CMD ->
                     TransferCmd(s, data_byte)
              [] s.state = PSDISPLAYSTATE_ACCEPTING_PARAM ->
                     TransferParam(s, data_byte)
              [] s.state = PSDISPLAYSTATE_ACCEPTING_SCENE_BYTE ->
                     TransferSceneByte(s, data_byte)
              [] s.state = PSDISPLAYSTATE_ACCEPTING_LINENO ->
                     TransferLineNo(s, data)
              [] s.state = PSDISPLAYSTATE_ACCEPTING_DATA ->
                     TransferData(s, data)

\* a color before the decoder has returned one
NO_COLOR == [red |-> -1, green |-> -1, blue |-> -1]

\* ps_display_get_rgb taking green from the blue field
ps_display_get_rgb_blue_twice(p) ==
    [ red |-> (((p % 256) \div 64) * 255) \div 3,
      green |-> ((((p % 16) \div 4)) * 255) \div 3,
      blue |-> ((((p % 16) \div 4)) * 255) \div 3 ]

\* c.red = ((pixel_value & 0xC0) >> 6) * 255 / 3, and so on: the masked
\* field, shifted down, times 255, divided by 3 (integer division)
ps_display_get_rgb(p) ==
    [ red |-> (((p % 256) \div 64) * 255) \div 3,
      green |-> ((((p % 64) \div 16)) * 255) \div 3,
      blue |-> ((((p % 16) \div 4)) * 255) \div 3 ]

\* ps_display_update_display asking for a redraw when none is pending
ps_display_update_display_toggle(s) == [s EXCEPT !.redraw = ~s.redraw]

\* the renderer; the host surface it fills is outside the device
ps_display_update_display(s) ==
    IF ~s.redraw THEN s ELSE [s EXCEPT !.redraw = FALSE]

ps_display_invalidate_display(s) == [s EXCEPT !.redraw = TRUE]

\* ps_display_set_cs leaving the decoder alone
ps_display_set_cs_only(s, value) == [s EXCEPT !.cs_value = value]

ps_display_set_cs(s, value) ==
    LET t == [s EXCEPT !.cs_value = value]
    IN IF value /\ t.state # PSDISPLAYSTATE_PROGRAMMING
       THEN ps_display_reset_state(t, TRUE) ELSE t

\* ps_display_set_reset_pin_cb keeping the clock counter
ps_display_set_reset_pin_cb_keep_count(s, level) ==
    LET t == [s EXCEPT !.done_output = qemu_set_irq(FALSE)]
    IN IF ~level
       THEN [t EXCEPT !.intn_output = qemu_set_irq(TRUE),
                      !.intn_first = FirstDriven(@, TRUE),
                      !.state = PSDISPLAYSTATE_PROGRAMMING,
                      !.prog_byte_offset = 0,
                      !.prog_header = << >>,
                      !.ndetect = 0]
       ELSE t

\* ps_display_set_reset_pin_cb forgetting the command set
ps_display_set_reset_pin_cb_forget(s, level) ==
    LET t == [s EXCEPT !.done_output = qemu_set_irq(FALSE)]
    IN IF ~level
       THEN [t EXCEPT !.intn_output = qemu_set_irq(TRUE),
                      !.intn_first = FirstDriven(@, TRUE),
                      !.sclk_count_with_cs_high = 0,
                      !.state = PSDISPLAYSTATE_PROGRAMMING,
                      !.prog_byte_offset = 0,
                      !.prog_header = << >>,
                      !.cmd_set = PSDISPLAY_CMD_SET_UNKNOWN,
                      !.ndetect = 0]
       ELSE t

ps_display_set_reset_pin_cb(s, level) ==
    LET t == [s EXCEPT !.done_output = qemu_set_irq(FALSE)]
    IN IF ~level
       THEN [t EXCEPT !.intn_output = qemu_set_irq(TRUE),
                      !.intn_first = FirstDriven(@, TRUE),
                      !.sclk_count_with_cs_high = 0,
                      !.state = PSDISPLAYSTATE_PROGRAMMING,
                      !.prog_byte_offset = 0,
                      !.prog_header = << >>,
                      !.ndetect = 0]
       ELSE t

\* SclkExit waiting for one more clock
SclkExitLate(s) ==
    IF s.sclk_count_with_cs_high > SCLK_EXIT_THRESHOLD + 1
    THEN LET t == [s EXCEPT !.done_output = qemu_set_irq(TRUE)]
         IN IF t.state = PSDISPLAYSTATE_PROGRAMMING
            THEN ps_display_determine_command_set(
                     ps_display_reset_state(t, TRUE))
            ELSE t
    ELSE s

\* SclkExit not looking at the state
SclkExitAlways(s) ==
    IF s.sclk_count_with_cs_high > SCLK_EXIT_THRESHOLD
    THEN ps_display_determine_command_set(
             ps_display_reset_state(
                 [s EXCEPT !.done_output = qemu_set_irq(TRUE)], TRUE))
    ELSE s

\* if (s->sclk_count_with_cs_high > 50) { ... }
SclkExit(s) ==
    IF s.sclk_count_with_cs_high > SCLK_EXIT_THRESHOLD
    THEN LET t == [s EXCEPT !.done_output = qemu_set_irq(TRUE)]
         IN IF t.state = PSDISPLAYSTATE_PROGRAMMING
            THEN ps_display_determine_command_set(
                     ps_display_reset_state(t, TRUE))
            ELSE t
    ELSE s

ps_display_set_sclk_pin_cb(s, new_value) ==
    LET t == IF s.cs_value
             THEN SclkExit(
                      IF new_value /\ new_value # s.sclk_value
                      THEN [s EXCEPT !.sclk_count_with_cs_high =
                                s.sclk_count_with_cs_high + 1]
                      ELSE s)
             ELSE s
    IN [t EXCEPT !.sclk_value = new_value]

(***************************************************************************)
(* Initial state: the zeroed PSDisplayGlobals of a new device.             *)
(***************************************************************************)
InitDevice ==
    /\ redraw = FALSE
    /\ framebuffer = [i \in 0 .. FB_SIZE - 1 |-> 0]
    /\ col_index = 0
    /\ row_index = 0
    /\ state = PSDISPLAYSTATE_PROGRAMMING
    /\ cmd = 0
    /\ parameter = U32(0, 0)
    /\ parameter_byte_offset = 0
    /\ scene = 0
    /\ sclk_value = FALSE
    /\ cs_value = FALSE
    /\ sclk_count_with_cs_high = 0
    /\ prog_header = << >>
    /\ prog_byte_offset = 0
    /\ cmd_set = PSDISPLAY_CMD_SET_UNKNOWN
    /\ intn_output = IRQ_UNDRIVEN
    /\ done_output = IRQ_UNDRIVEN
    /\ aborted = FALSE
    /\ fb_overrun = FALSE
    /\ ndetect = 0
    /\ intn_first = IRQ_UNDRIVEN
    /\ rx = << >>
    /\ fb0 = [i \in 0 .. FB_SIZE - 1 |-> 0]
    /\ ncmd = 0
    /\ nrise = 0
    /\ detect_in = << >>
    /\ dropped = FALSE

Init ==
    /\ InitDevice
    /\ logo = SubSeq(PEBBLE_LOGO, 1, LOGO_LEN)
    /\ pixel_value = 0
    /\ color = NO_COLOR

(***************************************************************************)
(* Actions: one per callback.  The history variables follow the device:    *)
(* rx and fb0 describe the unit in progress (a command with its bytes, or  *)
(* a column), and are cleared when chip select is released or reset is     *)
(* asserted.                                                               *)
(***************************************************************************)
\* a byte that the decoder takes (chip select asserted, not programming)
Decoded == ~cs_value /\ state # PSDISPLAYSTATE_PROGRAMMING
\* a byte that starts a unit: a command opcode, or a column index
StartsUnit ==
    state \in {PSDISPLAYSTATE_ACCEPTING_CMD, PSDISPLAYSTATE_ACCEPTING_LINENO}
\* a clock event that is a rising edge seen with chip select high
RisingEdge(level) == cs_value /\ level /\ ~sclk_value

Transfer(data) ==
    /\ ~aborted
    /\ Store(Left(dev, ps_display_transfer(Entered(dev), data)))
    /\ rx' = IF ~Decoded THEN rx
             ELSE IF StartsUnit THEN <<data>> ELSE Append(rx, data)
    /\ fb0' = IF Decoded /\ StartsUnit THEN framebuffer ELSE fb0
    /\ ncmd' = IF Decoded /\ state = PSDISPLAYSTATE_ACCEPTING_CMD
               THEN ncmd + 1 ELSE ncmd
    /\ dropped' = (dropped \/ cs_value)
    /\ UNCHANGED << nrise, detect_in >>
    /\ UNCHANGED fnvars

SetCs(value) ==
    /\ ~aborted
    /\ Store(Left(dev, ps_display_set_cs(Entered(dev), value)))
    /\ rx' = IF value /\ state # PSDISPLAYSTATE_PROGRAMMING THEN << >> ELSE rx
    /\ fb0' = IF value /\ state # PSDISPLAYSTATE_PROGRAMMING
              THEN framebuffer ELSE fb0
    /\ dropped' = FALSE
    /\ UNCHANGED << ncmd, nrise, detect_in >>
    /\ UNCHANGED fnvars

ResetPin(level) ==
    /\ ~aborted
    /\ Store(Left(dev, ps_display_set_reset_pin_cb(Entered(dev), level)))
    /\ rx' = IF level THEN rx ELSE << >>
    /\ fb0' = IF level THEN fb0 ELSE framebuffer
    /\ nrise' = IF level THEN nrise ELSE 0
    /\ detect_in' = IF level THEN detect_in ELSE << >>
    /\ dropped' = FALSE
    /\ UNCHANGED ncmd
    /\ UNCHANGED fnvars

SclkPin(level) ==
    /\ ~aborted
    /\ Store(Left(dev, ps_display_set_sclk_pin_cb(Entered(dev), level)))
    /\ nrise' = IF RisingEdge(level) THEN nrise + 1 ELSE nrise
    /\ detect_in' = IF ndetect' # ndetect THEN prog_header ELSE detect_in
    /\ UNCHANGED << rx, fb0, ncmd, dropped >>
    /\ UNCHANGED fnvars

UpdateDisplay ==
    /\ ~aborted
    /\ Store(ps_display_update_display(dev))
    /\ UNCHANGED << histvars, fnvars >>

InvalidateDisplay ==
    /\ ~aborted
    /\ Store(ps_display_invalidate_display(dev))
    /\ UNCHANGED << histvars, fnvars >>

(***************************************************************************)
(* The host: what it sends, and when.                                      *)
(***************************************************************************)
\* The programming streams of the host.  A stream is sent byte by byte, and
\* only then is the clock pulsed with chip select high.
\* FF 00 "L" 00
IMAGE_NO_DATE == <<255, 0, 76, 0>>
\* FF 00 "L" 00 "Date: Dec 10 2014 08:30" ":" 00
IMAGE_SET_0 == IMAGE_NO_DATE \o DATE_STR_SET_0 \o <<58, 0>>
\* FF 00 "L" 00 "Date: Sep 12 2014 16:56:21" 00 7E AA 99 7E
IMAGE_SET_1 == IMAGE_NO_DATE \o DATE_STR_SET_1 \o <<0, 126, 170, 153, 126>>

ProgImages == { IMAGE_NO_DATE, IMAGE_SET_0, IMAGE_SET_1 }

IsPrefix(p, q) == Len(p) <= Len(q) /\ SubSeq(q, 1, Len(p)) = p

\* what the header holds of a stream: its first PROG_HEADER_SIZE bytes
Captured(img) ==
    IF Len(img) > PROG_HEADER_SIZE THEN SubSeq(img, 1, PROG_HEADER_SIZE)
    ELSE img

\* the stream has been sent
StreamSent == \E img \in ProgImages : prog_header = Captured(img)

\* the next byte of a stream of which prog_header is the start; once the
\* header is full the rest of the stream is dropped, whatever it is
ProgBytes ==
    IF prog_byte_offset >= PROG_HEADER_SIZE THEN {0}
    ELSE IF sclk_count_with_cs_high > 0 THEN {}
    ELSE { img[Len(prog_header) + 1] :
             img \in { i \in ProgImages :
                         Len(i) > Len(prog_header) /\ IsPrefix(prog_header, i) } }

\* the opcodes of the dialect, and the first opcode that it does not know
CmdBytes ==
    IF cmd_set = PSDISPLAY_CMD_SET_1 THEN 0 .. PSDISPLAYCMD1_FRAME_END + 1
    ELSE 0 .. PSDISPLAYCMD0_DRAW_SCENE + 1
ParamBytes == {1, 255}
SceneBytes == 0 .. 4
\* every column, and the first invalid one
ColBytes == 0 .. SNOWY_NUM_COLS
\* the test pattern of the host: the n-th byte of the column whose index
\* byte was c is 16 * c + n
PixelBytes == IF rx = << >> THEN {255} ELSE {(16 * rx[1] + Len(rx)) % 256}

HostBytes ==
    CASE state = PSDISPLAYSTATE_PROGRAMMING -> ProgBytes
      [] state = PSDISPLAYSTATE_ACCEPTING_CMD -> CmdBytes
      [] state = PSDISPLAYSTATE_ACCEPTING_PARAM -> ParamBytes
      [] state = PSDISPLAYSTATE_ACCEPTING_SCENE_BYTE -> SceneBytes
      [] state = PSDISPLAYSTATE_ACCEPTING_LINENO -> ColBytes
      [] state = PSDISPLAYSTATE_ACCEPTING_DATA -> PixelBytes

\* the run is followed until a reset is asserted after commands were issued
HostDone == state = PSDISPLAYSTATE_PROGRAMMING /\ ncmd > 0

\* the host issues at most MaxCmds command opcodes, and one only to a device
\* that was programmed with the stream that holds no date
HostMaySend ==
    (Decoded /\ state = PSDISPLAYSTATE_ACCEPTING_CMD) =>
        ncmd < (IF detect_in = IMAGE_NO_DATE THEN 1 ELSE MaxCmds)

\* the host drives the clock pin only before it sends commands; it pulses
\* the clock with chip select high once the stream is sent, and stops once
\* the counter has reached MaxSclkCount
HostMayClock(level) ==
    /\ ncmd = 0
    /\ RisingEdge(level) =>
           /\ sclk_count_with_cs_high < MaxSclkCount
           /\ state = PSDISPLAYSTATE_PROGRAMMING => StreamSent

\* the host asserts reset at any time, and releases it before it sends
\* commands
HostMayReset(level) == level => ncmd = 0

Next ==
    \/ \E data \in HostBytes : ~HostDone /\ HostMaySend /\ Transfer(data)
    \/ \E value \in BOOLEAN : ~HostDone /\ SetCs(value)
    \/ \E level \in BOOLEAN : ~HostDone /\ HostMayReset(level) /\ ResetPin(level)
    \/ \E level \in BOOLEAN : ~HostDone /\ HostMayClock(level) /\ SclkPin(level)
    \/ ~HostDone /\ UpdateDisplay
    \/ ~HostDone /\ InvalidateDisplay

Spec == Init /\ [][Next]_vars

(***************************************************************************)
(* Properties.  In rx, a column is its index byte followed by its data     *)
(* bytes: byte d[m] of the column is rx[m + 2].                            *)
(***************************************************************************)
\* the framebuffer once the first j data bytes of the column in rx are taken:
\* fb0, but for the cells of column rx[1] that the visible bytes among them
\* fill, the k-th visible byte in row SNOWY_NUM_ROWS - 1 - k
ColumnExpected(j) ==
    [index \in 0 .. FB_SIZE - 1 |->
        LET row == index \div SNOWY_BYTES_PER_ROW
            col == index % SNOWY_BYTES_PER_ROW
            k == SNOWY_NUM_ROWS - 1 - row
        IN IF col = rx[1] /\ SNOWY_ROWS_SKIPPED_AT_BOTTOM + k < j
           THEN rx[SNOWY_ROWS_SKIPPED_AT_BOTTOM + k + 2]
           ELSE fb0[index]]

\* a column has been transferred in full
ColumnDone ==
    /\ cmd_set = PSDISPLAY_CMD_SET_1
    /\ state = PSDISPLAYSTATE_ACCEPTING_LINENO
    /\ Len(rx) = 1 + SNOWY_LINE_DATA_LEN

\* C1: under the Development dialect, after a valid column index c and the
\* BOTTOM + ROWS + TOP data bytes d of the column, the framebuffer is the
\* one before the column except that cell [ROWS-1-k][c] holds d[BOTTOM+k]
\* for every visible k: no padding byte is stored and no other cell changes.
\* The same holds of every prefix of the column, and a column takes exactly
\* BOTTOM + ROWS + TOP data bytes.
ColumnTransferred ==
    (cmd_set = PSDISPLAY_CMD_SET_1 /\ rx # << >>) =>
        /\ state = PSDISPLAYSTATE_ACCEPTING_DATA => Len(rx) <= SNOWY_LINE_DATA_LEN
        /\ state = PSDISPLAYSTATE_ACCEPTING_LINENO =>
               Len(rx) \in {1, 1 + SNOWY_LINE_DATA_LEN}
        /\ ((state = PSDISPLAYSTATE_ACCEPTING_DATA \/ ColumnDone)
                /\ rx[1] < SNOWY_NUM_COLS) =>
               framebuffer = ColumnExpected(Len(rx) - 1)

\* the last column has been transferred in full into a framebuffer that
\* already held pixels
ColumnTransferredWitness ==
    /\ ColumnDone
    /\ ~cs_value
    /\ rx[1] = SNOWY_NUM_COLS - 1
    /\ \E index \in 0 .. FB_SIZE - 1 : fb0[index] # 0
    /\ \A row \in 0 .. SNOWY_NUM_ROWS - 1 :
           framebuffer[row * SNOWY_BYTES_PER_ROW + rx[1]] # 0

\* C2: whatever the events so far, no byte is stored outside the
\* framebuffer: while data bytes are accepted the column index is a column
\* of the display and the row cursor is a row of the column on the wire, and
\* a column index byte of SNOWY_NUM_COLS or more is stored as 0.
ColumnWriteInBounds ==
    /\ ~fb_overrun
    /\ state = PSDISPLAYSTATE_ACCEPTING_DATA =>
           /\ col_index \in 0 .. SNOWY_NUM_COLS - 1
           /\ row_index \in -SNOWY_ROWS_SKIPPED_AT_TOP ..
                            SNOWY_NUM_ROWS + SNOWY_ROWS_SKIPPED_AT_BOTTOM - 1
           /\ rx # << >>
           /\ col_index = IF rx[1] >= SNOWY_NUM_COLS THEN 0 ELSE rx[1]

\* all visible bytes of a column sent with the index SNOWY_NUM_COLS have
\* been stored, in column 0
ColumnWriteInBoundsWitness ==
    /\ state = PSDISPLAYSTATE_ACCEPTING_DATA
    /\ rx # << >>
    /\ rx[1] = SNOWY_NUM_COLS
    /\ col_index = 0
    /\ row_index < 0
    /\ \A row \in 0 .. SNOWY_NUM_ROWS - 1 :
           framebuffer[row * SNOWY_BYTES_PER_ROW] =
               rx[SNOWY_ROWS_SKIPPED_AT_BOTTOM + (SNOWY_NUM_ROWS - 1 - row) + 2]

\* C3: under the Legacy dialect, after the SET_PARAMETER opcode and j < 4
\* parameter bytes the decoder accepts parameter bytes, at offset j; after
\* the fourth byte the parameter is b0 + 256*b1 + 65536*b2 + 16777216*b3
\* (its low half b0 + 256*b1, its high half b2 + 256*b3), the decoder
\* accepts commands, the offset is back at 0 and the done interrupt is
\* asserted.
ParameterAssembled ==
    (cmd_set = PSDISPLAY_CMD_SET_0 /\ rx # << >> /\ rx[1] = 1) =>
        /\ Len(rx) <= 5
        /\ Len(rx) <= 4 =>
               /\ state = PSDISPLAYSTATE_ACCEPTING_PARAM
               /\ parameter_byte_offset = Len(rx) - 1
        /\ Len(rx) = 5 =>
               /\ parameter.lo = rx[2] + 256 * rx[3]
               /\ parameter.hi = rx[4] + 256 * rx[5]
               /\ state = PSDISPLAYSTATE_ACCEPTING_CMD
               /\ parameter_byte_offset = 0
               /\ intn_output = IRQ_LOW

\* the parameter 0xFF0101FF has been assembled from FF 01 01 FF
ParameterAssembledWitness ==
    /\ cmd_set = PSDISPLAY_CMD_SET_0
    /\ ~cs_value
    /\ rx = <<1, 255, 1, 1, 255>>
    /\ parameter = U32(65281, 511)
    /\ state = PSDISPLAYSTATE_ACCEPTING_CMD

\* the byte a scene fills the framebuffer with: 0x00, 0x30, 0x0C
SceneFill(sc) == CASE sc = 0 -> 0 [] sc = 2 -> 48 [] sc = 3 -> 12

\* C4: under the Legacy dialect with chip select asserted, the scene byte
\* Black (0), Update (2) or Error (3) that follows the DRAW_SCENE opcode
\* leaves every cell of the framebuffer at 0x00, 0x30 or 0x0C, whatever the
\* framebuffer held, sets the dirty flag, returns the decoder to accepting
\* commands and asserts the done interrupt.
SceneDrawn ==
    [][\A sc \in {0, 2, 3} :
          (/\ cmd_set = PSDISPLAY_CMD_SET_0
           /\ ~cs_value
           /\ state = PSDISPLAYSTATE_ACCEPTING_SCENE_BYTE
           /\ rx = <<4>>
           /\ Transfer(sc)) =>
          (/\ framebuffer' = [i \in 0 .. FB_SIZE - 1 |-> SceneFill(sc)]
           /\ redraw'
           /\ state' = PSDISPLAYSTATE_ACCEPTING_CMD
           /\ intn_output' = IRQ_LOW)]_vars

\* the Error scene has been drawn over the Update scene
SceneDrawnWitness ==
    /\ cmd_set = PSDISPLAY_CMD_SET_0
    /\ rx = <<4, 3>>
    /\ fb0 = [i \in 0 .. FB_SIZE - 1 |-> 48]
    /\ framebuffer = [i \in 0 .. FB_SIZE - 1 |-> 12]
    /\ redraw
    /\ state = PSDISPLAYSTATE_ACCEPTING_CMD
    /\ intn_output = IRQ_LOW

\* C5: whatever the state, asserting the reset pin (level 0) leaves the
\* decoder in PROGRAMMING, the captured header empty, the clock counter at
\* 0 and the done interrupt deasserted.
ResetAsserted ==
    [][ResetPin(FALSE) =>
          (/\ state' = PSDISPLAYSTATE_PROGRAMMING
           /\ prog_byte_offset' = 0
           /\ sclk_count_with_cs_high' = 0
           /\ intn_output' = IRQ_HIGH)]_vars

\* reset has been asserted in the middle of a parameter, after the
\* programming of the Legacy dialect had been clocked out
ResetAssertedWitness ==
    /\ state = PSDISPLAYSTATE_PROGRAMMING
    /\ prog_byte_offset = 0
    /\ sclk_count_with_cs_high = 0
    /\ intn_output = IRQ_HIGH
    /\ cmd_set = PSDISPLAY_CMD_SET_0
    /\ parameter_byte_offset \in 1 .. 3
    /\ ~cs_value

\* C6, as stated: the decoder is in PROGRAMMING as long as 51 or fewer
\* rising clock edges were seen with chip select high since the reset, and
\* leaves it on the 52nd.
ProgrammingExitAt52 ==
    /\ state = PSDISPLAYSTATE_PROGRAMMING <=> nrise <= 51
    /\ (nrise > 51 /\ ncmd = 0) => state = PSDISPLAYSTATE_ACCEPTING_CMD

\* C6, as the code has it: the decoder is in PROGRAMMING as long as 50 or
\* fewer rising clock edges were seen with chip select high since the reset,
\* and on the 51st it accepts commands.
ProgrammingExitAt51 ==
    /\ state = PSDISPLAYSTATE_PROGRAMMING <=> nrise <= 50
    /\ (nrise > 50 /\ ncmd = 0) => state = PSDISPLAYSTATE_ACCEPTING_CMD

\* the 51st rising edge since a reset has just been seen
ProgrammingExitWitness ==
    /\ nrise = 51
    /\ sclk_count_with_cs_high = 51
    /\ intn_output = IRQ_LOW
    /\ done_output = IRQ_HIGH
    /\ sclk_value
    /\ cs_value
    /\ state = PSDISPLAYSTATE_ACCEPTING_CMD

\* C7: between two reset assertions the detector is called at most once:
\* it has been called once if more rising clock edges than the threshold
\* were seen with chip select high since the reset, and not at all if not;
\* until it is called the decoder is in PROGRAMMING, and never after.
DetectedOnce ==
    /\ ndetect = IF nrise > SCLK_EXIT_THRESHOLD THEN 1 ELSE 0
    /\ state = PSDISPLAYSTATE_PROGRAMMING <=> ndetect = 0

\* after the detection a column was sent, chip select was released and the
\* clock pin changed again with chip select high
DetectedOnceWitness ==
    /\ ndetect = 1
    /\ ncmd > 0
    /\ row_index < 0
    /\ cs_value
    /\ ~sclk_value
    /\ done_output = IRQ_HIGH

\* C8: the command set changes only in a step that calls the detector, and
\* the detector is not called again before a reset is asserted.
CmdSetKept ==
    [][cmd_set' # cmd_set => (ndetect = 0 /\ ndetect' = 1)]_vars

\* the Legacy dialect has outlived a reset, and the programming of the
\* Development dialect is about to be clocked out
CmdSetKeptWitness ==
    /\ cmd_set = PSDISPLAY_CMD_SET_0
    /\ state = PSDISPLAYSTATE_PROGRAMMING
    /\ ndetect = 0
    /\ prog_header = Captured(IMAGE_SET_1)
    /\ sclk_count_with_cs_high = SCLK_EXIT_THRESHOLD

(***************************************************************************)
(* The detector alone: the header holds any of DetectHeaders, chip select  *)
(* is high and SCLK_EXIT_THRESHOLD rising edges of the clock have been     *)
(* seen; the next one calls the detector.                                  *)
(***************************************************************************)
\* "Date: Jan"
DATE_STR_OTHER == <<68, 97, 116, 101, 58, 32, 74>>

\* what comes before the date: the sentinel FF 00; nothing; FF; the
\* sentinel and the string "L"; the sentinel and an "L" that runs into
\* the date
HeaderStarts ==
    { <<255, 0>>, << >>, <<255>>, <<255, 0, 76, 0>>, <<255, 0, 76>> }

\* a date of the table, another date, the marker alone, no marker
HeaderDates ==
    { DATE_STR_SET_0, DATE_STR_SET_1, DATE_STR_OTHER, DATE_MARKER, <<76>> }

\* what comes after the date: nothing; 00; ":" 00; 00 and a date of the
\* table
HeaderEnds ==
    { << >>, <<0>>, <<58, 0>>, <<0>> \o DATE_STR_SET_0, <<0>> \o DATE_STR_SET_1 }

\* a header that the date fills to its last byte
FullHeader(date) ==
    <<255, 0>> \o [i \in 1 .. PROG_HEADER_SIZE - 3 - Len(date) |-> 76]
               \o <<0>> \o date

DetectHeaders ==
    { h \in { a \o b \o c : a \in HeaderStarts, b \in HeaderDates,
                            c \in HeaderEnds } :
        Len(h) <= PROG_HEADER_SIZE }
    \cup { FullHeader(DATE_STR_SET_0), FullHeader(DATE_STR_SET_1) }

InitDetect ==
    /\ redraw = FALSE
    /\ framebuffer = [i \in 0 .. FB_SIZE - 1 |-> 0]
    /\ col_index = 0
    /\ row_index = 0
    /\ state = PSDISPLAYSTATE_PROGRAMMING
    /\ cmd = 0
    /\ parameter = U32(0, 0)
    /\ parameter_byte_offset = 0
    /\ scene = 0
    /\ sclk_value = FALSE
    /\ cs_value = TRUE
    /\ sclk_count_with_cs_high = SCLK_EXIT_THRESHOLD
    /\ prog_header \in DetectHeaders
    /\ prog_byte_offset = Len(prog_header)
    /\ cmd_set = PSDISPLAY_CMD_SET_UNKNOWN
    /\ intn_output = IRQ_UNDRIVEN
    /\ done_output = IRQ_UNDRIVEN
    /\ aborted = FALSE
    /\ fb_overrun = FALSE
    /\ ndetect = 0
    /\ intn_first = IRQ_UNDRIVEN
    /\ rx = << >>
    /\ fb0 = [i \in 0 .. FB_SIZE - 1 |-> 0]
    /\ ncmd = 0
    /\ nrise = SCLK_EXIT_THRESHOLD
    /\ detect_in = << >>
    /\ dropped = FALSE
    /\ logo = SubSeq(PEBBLE_LOGO, 1, LOGO_LEN)
    /\ pixel_value = 0
    /\ color = NO_COLOR

NextDetect ==
    \E level \in BOOLEAN :
        /\ RisingEdge(level) => sclk_count_with_cs_high < MaxSclkCount
        /\ SclkPin(level)

SpecDetect == InitDetect /\ [][NextDetect]_vars

\* lit is in h, at index i (from 0)
OccursAt(h, i, lit) ==
    i + Len(lit) <= Len(h) /\ SubSeq(h, i + 1, i + Len(lit)) = lit

Contains(h, lit) == \E i \in 0 .. Len(h) : OccursAt(h, i, lit)

\* C9, as stated: a header that contains "Date: Dec 10 2014 08:30" gives the
\* Legacy dialect, one that contains "Date: Sep 12 2014 16:56:21" the
\* Development dialect, and one with no "Date:" or with neither date the
\* default, the Development dialect.
DetectsContainedDate ==
    ndetect = 1 =>
        /\ Contains(detect_in, DATE_STR_SET_0) => cmd_set = PSDISPLAY_CMD_SET_0
        /\ Contains(detect_in, DATE_STR_SET_1) => cmd_set = PSDISPLAY_CMD_SET_1
        /\ (\/ ~Contains(detect_in, DATE_MARKER)
            \/ /\ ~Contains(detect_in, DATE_STR_SET_0)
               /\ ~Contains(detect_in, DATE_STR_SET_1)) =>
               cmd_set = PSDISPLAY_CMD_SET_1

\* the part of a captured header that is read: all of it, but for the last
\* byte of a full header
HeaderRead(h) ==
    IF Len(h) >= PROG_HEADER_SIZE THEN SubSeq(h, 1, PROG_HEADER_SIZE - 1)
    ELSE h

\* where the strings of h start: at index 2, and after every 0 from there on
StringStarts(h) ==
    { i \in 2 .. Len(h) - 1 : i = 2 \/ (i > 2 /\ h[i] = 0) }

\* the starts of the strings of h that begin with "Date:"
DateStarts(h) == { i \in StringStarts(h) : OccursAt(h, i, DATE_MARKER) }

\* the dialect of the first string that begins with "Date:"
FirstDateDialect(h) ==
    IF DateStarts(h) = {} THEN PSDISPLAY_CMD_SET_1
    ELSE LET i == CHOOSE j \in DateStarts(h) : \A k \in DateStarts(h) : j <= k
         IN IF OccursAt(h, i, DATE_STR_SET_0) THEN PSDISPLAY_CMD_SET_0
            ELSE PSDISPLAY_CMD_SET_1

\* C9, as the code has it: the header is read without the last byte of a
\* full buffer, as the 0-terminated strings that start at index 2 and after
\* every 0; if the first string that begins with "Date:" begins with
\* "Date: Dec 10 2014 08:30" the dialect is Legacy, if it begins with
\* "Date: Sep 12 2014 16:56:21" it is Development, and if there is no such
\* string or it begins with neither date it is the default, Development.
DetectsFirstDateString ==
    ndetect = 1 => cmd_set = FirstDateDialect(HeaderRead(detect_in))

\* the Legacy dialect has been detected from a date that is the second
\* string of the header
DetectsFirstDateStringWitness ==
    /\ ndetect = 1
    /\ cmd_set = PSDISPLAY_CMD_SET_0
    /\ state = PSDISPLAYSTATE_ACCEPTING_CMD
    /\ detect_in = <<255, 0, 76, 0>> \o DATE_STR_SET_0 \o <<58, 0>>

\* C10: releasing chip select outside PROGRAMMING leaves the decoder
\* accepting commands, the parameter offset at 0 and the done interrupt
\* asserted; releasing it in PROGRAMMING leaves the decoder in PROGRAMMING
\* and the done interrupt as it was.
ChipSelectReleased ==
    [][SetCs(TRUE) =>
          IF state # PSDISPLAYSTATE_PROGRAMMING
          THEN /\ state' = PSDISPLAYSTATE_ACCEPTING_CMD
               /\ parameter_byte_offset' = 0
               /\ intn_output' = IRQ_LOW
          ELSE /\ state' = PSDISPLAYSTATE_PROGRAMMING
               /\ intn_output' = intn_output]_vars

\* chip select has been released in the middle of a column
ChipSelectReleasedWitness ==
    /\ cs_value
    /\ state = PSDISPLAYSTATE_ACCEPTING_CMD
    /\ parameter_byte_offset = 0
    /\ intn_output = IRQ_LOW
    /\ cmd_set = PSDISPLAY_CMD_SET_1
    /\ row_index \in 0 .. SNOWY_NUM_ROWS - 1

\* C11: a byte handed over while chip select is high and the decoder is
\* not in PROGRAMMING changes nothing: whichever byte the host hands over
\* then, state, command, parameter and its offset, scene, column and row,
\* framebuffer, dirty flag and both output pins are afterwards as before.
TransferIgnored ==
    (cs_value /\ state # PSDISPLAYSTATE_PROGRAMMING) =>
    \A data \in HostBytes :
        LET t == ps_display_transfer(dev, data)
        IN /\ t.state = state
           /\ t.cmd = cmd
           /\ t.parameter = parameter
           /\ t.parameter_byte_offset = parameter_byte_offset
           /\ t.scene = scene
           /\ t.col_index = col_index
           /\ t.row_index = row_index
           /\ t.framebuffer = framebuffer
           /\ t.redraw = redraw
           /\ t.intn_output = intn_output
           /\ t.done_output = done_output

\* a byte was handed over with chip select high after a scene was drawn
\* and a parameter begun
TransferIgnoredWitness ==
    /\ dropped
    /\ cs_value
    /\ state = PSDISPLAYSTATE_ACCEPTING_CMD
    /\ cmd = PSDISPLAYCMD0_SET_PARAMETER
    /\ parameter.lo = 255
    /\ \A i \in 0 .. FB_SIZE - 1 : framebuffer[i] = SNOWY_COLOR_GREEN
    /\ redraw

\* C12, as stated: the busy/done pin is low while a parameter, a scene
\* byte or the data of a line is awaited, and high when the decoder is idle
\* and when programming has completed.
BusyPinLowInProgress ==
    /\ state \in {PSDISPLAYSTATE_ACCEPTING_PARAM,
                  PSDISPLAYSTATE_ACCEPTING_SCENE_BYTE,
                  PSDISPLAYSTATE_ACCEPTING_DATA} => intn_output = IRQ_LOW
    /\ (state = PSDISPLAYSTATE_ACCEPTING_CMD /\ rx = << >>) =>
           intn_output = IRQ_HIGH

\* C12, as the code has it: the busy/done pin is high while a parameter, a
\* scene byte or the data of a line is awaited, and after the FRAME_BEGIN
\* and FRAME_DATA opcodes; it is low once a command, a parameter, a scene or
\* a line is complete, once chip select is released outside PROGRAMMING,
\* and once programming has completed.
BusyPinHighInProgress ==
    /\ state \in {PSDISPLAYSTATE_ACCEPTING_PARAM,
                  PSDISPLAYSTATE_ACCEPTING_SCENE_BYTE,
                  PSDISPLAYSTATE_ACCEPTING_DATA} => intn_output = IRQ_HIGH
    /\ state = PSDISPLAYSTATE_ACCEPTING_CMD =>
           intn_output = IF cmd_set = PSDISPLAY_CMD_SET_1 /\ rx = <<0>>
                         THEN IRQ_HIGH ELSE IRQ_LOW
    /\ state = PSDISPLAYSTATE_ACCEPTING_LINENO =>
           intn_output = IF rx = <<1>> THEN IRQ_HIGH ELSE IRQ_LOW

\* the second byte of a parameter is awaited, after a command that had
\* completed
BusyPinHighInProgressWitness ==
    /\ state = PSDISPLAYSTATE_ACCEPTING_PARAM
    /\ ncmd = 2
    /\ Len(rx) = 2
    /\ intn_output = IRQ_HIGH

\* opcodes that the dialect in force does not know: the first one, the
\* first one of the other dialect if it is another, and the last byte value
UnknownOpcodes ==
    IF cmd_set = PSDISPLAY_CMD_SET_1
    THEN {PSDISPLAYCMD1_FRAME_END + 1, PSDISPLAYCMD0_DRAW_SCENE + 1, 255}
    ELSE {PSDISPLAYCMD0_DRAW_SCENE + 1, 255}

\* C13: an unknown opcode received in ACCEPTING_CMD (above 4 in the first
\* dialect, above 2 in the second) is recoverable: whichever of them the
\* host sends with chip select low, the state afterwards is ACCEPTING_CMD,
\* done is signalled, the run is not aborted, and framebuffer, redraw flag,
\* parameter and dialect are as before.
UnknownOpcodeRecoverable ==
    (/\ state = PSDISPLAYSTATE_ACCEPTING_CMD
     /\ cmd_set \in {PSDISPLAY_CMD_SET_0, PSDISPLAY_CMD_SET_1}
     /\ ~cs_value /\ ~aborted) =>
    \A op \in UnknownOpcodes :
        LET t == ps_display_transfer(dev, op)
        IN /\ t.state = PSDISPLAYSTATE_ACCEPTING_CMD
           /\ t.intn_output = IRQ_LOW
           /\ ~t.aborted
           /\ t.cmd = op
           /\ t.framebuffer = framebuffer
           /\ t.redraw = redraw
           /\ t.parameter = parameter
           /\ t.cmd_set = cmd_set

\* the first unknown opcode of the second dialect has been received after
\* a frame was ended
UnknownOpcodeRecoverableWitness ==
    /\ cmd_set = PSDISPLAY_CMD_SET_1
    /\ ncmd = 2
    /\ rx = << PSDISPLAYCMD1_FRAME_END + 1 >>
    /\ cmd = PSDISPLAYCMD1_FRAME_END + 1
    /\ state = PSDISPLAYSTATE_ACCEPTING_CMD
    /\ intn_output = IRQ_LOW
    /\ redraw /\ ~aborted /\ ~cs_value

(***************************************************************************)
(* The pixel decoder alone: it is applied to each of the 256 byte values.  *)
(***************************************************************************)
InitRgb ==
    /\ InitDevice
    /\ logo = SubSeq(PEBBLE_LOGO, 1, LOGO_LEN)
    /\ pixel_value \in 0 .. 255
    /\ color = NO_COLOR

\* PSDisplayPixelColor color = ps_display_get_rgb(pixel);
GetRgb ==
    /\ color' = ps_display_get_rgb(pixel_value)
    /\ UNCHANGED << devvars, histvars, logo, pixel_value >>

NextRgb == GetRgb

SpecRgb == InitRgb /\ [][NextRgb]_vars

\* the level of a two-bit channel
ChannelLevel(f) == << 0, 85, 170, 255 >>[f + 1]

\* C15: for each of the 256 byte values the decoder returns (r, g, b),
\* where r, g and b are the two-bit fields at bits 7-6, 5-4 and 3-2, each
\* mapped 0 -> 0, 1 -> 85, 2 -> 170, 3 -> 255; the two low bits do not
\* affect the result.
PixelDecoded ==
    color # NO_COLOR =>
        \E r, g, b, low \in 0 .. 3 :
            /\ pixel_value = 64 * r + 16 * g + 4 * b + low
            /\ color = [ red |-> ChannelLevel(r), green |-> ChannelLevel(g),
                         blue |-> ChannelLevel(b) ]

\* 0x9E (10 01 11 10) has been decoded to (170, 85, 255)
PixelDecodedWitness ==
    /\ pixel_value = 158
    /\ color = [ red |-> 170, green |-> 85, blue |-> 255 ]

\* C16: the count of rising clock edges seen with chip select high is zero
\* again whenever chip select is lowered, so that edges counted in an earlier
\* period with chip select high do not count in a later one.
ClockCountResetOnSelect ==
    [][(cs_value /\ ~cs_value') => sclk_count_with_cs_high' = 0]_vars

\* C17: between two reset assertions the programming-complete pin is raised
\* once: a step takes it to high only in a cycle in which programming has
\* not yet completed (the detector has not run since reset was asserted), so
\* that it is never lowered and raised again within the cycle.
DoneRaisedOnce ==
    [][(done_output # IRQ_HIGH /\ done_output' = IRQ_HIGH) => ndetect = 0]_vars

\* byte values handed over in PROGRAMMING: the ends and the middle of the
\* range, the terminator and the first letter of the date marker
ProgrammingBytes == {0, 1, DATE_MARKER[1], 127, 128, 255}

\* what a byte handed over in PROGRAMMING leaves behind, but for the header
ProgrammingKept(t) ==
    /\ t.state = PSDISPLAYSTATE_PROGRAMMING
    /\ t.prog_byte_offset = Len(t.prog_header)
    /\ t.prog_byte_offset <= PROG_HEADER_SIZE
    /\ ~t.aborted
    /\ t.intn_output = intn_output
    /\ t.framebuffer = framebuffer

\* C18, as stated: in PROGRAMMING every byte handed to the transfer handler
\* is appended to the header while the header is not full, whatever the
\* level of chip select; a byte beyond the capacity is dropped; the length
\* captured never exceeds the capacity and no byte leaves PROGRAMMING.
ProgrammingAppendsUngated ==
    (state = PSDISPLAYSTATE_PROGRAMMING /\ ~aborted) =>
    \A data \in ProgrammingBytes :
        LET t == ps_display_transfer(dev, data)
        IN /\ ProgrammingKept(t)
           /\ t.prog_header = IF prog_byte_offset < PROG_HEADER_SIZE
                              THEN Append(prog_header, data)
                              ELSE prog_header

\* C18, as the code has it: in PROGRAMMING a byte handed to the transfer
\* handler with chip select low is appended to the header while the header
\* is not full; a byte handed over with chip select high is dropped, as in
\* every other state; a byte beyond the capacity is dropped; the length
\* captured never exceeds the capacity and no byte leaves PROGRAMMING.
ProgrammingAppendsSelected ==
    (state = PSDISPLAYSTATE_PROGRAMMING /\ ~aborted) =>
    \A data \in ProgrammingBytes :
        LET t == ps_display_transfer(dev, data)
        IN /\ ProgrammingKept(t)
           /\ t.prog_header = IF ~cs_value /\ prog_byte_offset < PROG_HEADER_SIZE
                              THEN Append(prog_header, data)
                              ELSE prog_header

\* the header is full and holds the start of a longer stream; bytes have
\* then been handed over with chip select high
ProgrammingAppendsSelectedWitness ==
    /\ state = PSDISPLAYSTATE_PROGRAMMING
    /\ prog_byte_offset = PROG_HEADER_SIZE
    /\ prog_header = Captured(IMAGE_SET_1)
    /\ Len(IMAGE_SET_1) > PROG_HEADER_SIZE
    /\ cs_value /\ dropped

\* C19: once a column index byte is accepted the state is ACCEPTING_DATA
\* for the first BOTTOM + ROWS + TOP - 1 data bytes, and the last data byte
\* of the column, and no earlier one, returns it to ACCEPTING_LINENO and
\* signals done; the byte after it is taken as the next column index: it
\* sets the column and the row cursor and stores nothing.
ColumnFramed ==
    cmd_set = PSDISPLAY_CMD_SET_1 =>
        /\ Len(rx) <= 1 + SNOWY_LINE_DATA_LEN
        /\ Len(rx) \in 2 .. SNOWY_LINE_DATA_LEN =>
               /\ state = PSDISPLAYSTATE_ACCEPTING_DATA
               /\ intn_output = IRQ_HIGH
        /\ Len(rx) = 1 + SNOWY_LINE_DATA_LEN =>
               /\ state = PSDISPLAYSTATE_ACCEPTING_LINENO
               /\ intn_output = IRQ_LOW
        /\ state = PSDISPLAYSTATE_ACCEPTING_DATA =>
               Len(rx) \in 1 .. SNOWY_LINE_DATA_LEN
        /\ (state = PSDISPLAYSTATE_ACCEPTING_DATA /\ Len(rx) = 1) =>
               /\ col_index = IF rx[1] >= SNOWY_NUM_COLS THEN 0 ELSE rx[1]
               /\ row_index = SNOWY_NUM_ROWS + SNOWY_ROWS_SKIPPED_AT_BOTTOM - 1
               /\ framebuffer = fb0
               /\ intn_output = IRQ_HIGH

\* under one FRAME_DATA command, column 0 has been transferred in full and
\* the byte after it has been taken as the index of column 1
ColumnFramedWitness ==
    /\ cmd_set = PSDISPLAY_CMD_SET_1
    /\ ncmd = 1
    /\ state = PSDISPLAYSTATE_ACCEPTING_DATA
    /\ rx = <<1>>
    /\ col_index = 1
    /\ \A row \in 0 .. SNOWY_NUM_ROWS - 1 :
           /\ fb0[row * SNOWY_BYTES_PER_ROW] # 0
           /\ fb0[row * SNOWY_BYTES_PER_ROW + 1] = 0

(***************************************************************************)
(* The splash blit alone: the scene byte of the splash is received by a    *)
(* device that has left PROGRAMMING under the first dialect and has taken  *)
(* the DRAW_SCENE opcode, for every content of the bitmap that the blit    *)
(* reads, over a framebuffer that is black or was filled by a scene.       *)
(***************************************************************************)
TestBitmaps == [1 .. LOGO_LEN -> 0 .. 255]

InitBitmap ==
    /\ \/ /\ framebuffer = [i \in 0 .. FB_SIZE - 1 |-> SNOWY_COLOR_BLACK]
          /\ redraw = FALSE /\ scene = 0 /\ ncmd = 1
       \/ /\ framebuffer = [i \in 0 .. FB_SIZE - 1 |-> SNOWY_COLOR_GREEN]
          /\ redraw = TRUE /\ scene = PSDISPLAYSCENE_UPDATE /\ ncmd = 2
    /\ col_index = 0
    /\ row_index = 0
    /\ state = PSDISPLAYSTATE_ACCEPTING_SCENE_BYTE
    /\ cmd = PSDISPLAYCMD0_DRAW_SCENE
    /\ parameter = U32(0, 0)
    /\ parameter_byte_offset = 0
    /\ sclk_value = TRUE
    /\ cs_value = FALSE
    /\ sclk_count_with_cs_high = SCLK_EXIT_THRESHOLD + 1
    /\ prog_header = Captured(IMAGE_SET_0)
    /\ prog_byte_offset = Len(prog_header)
    /\ cmd_set = PSDISPLAY_CMD_SET_0
    /\ intn_output = IRQ_HIGH
    /\ done_output = IRQ_HIGH
    /\ aborted = FALSE
    /\ fb_overrun = FALSE
    /\ ndetect = 1
    /\ intn_first = IRQ_HIGH
    /\ rx = << PSDISPLAYCMD0_DRAW_SCENE >>
    /\ fb0 = framebuffer
    /\ nrise = SCLK_EXIT_THRESHOLD + 1
    /\ detect_in = prog_header
    /\ dropped = FALSE
    /\ logo \in TestBitmaps
    /\ pixel_value = 0
    /\ color = NO_COLOR

NextBitmap ==
    /\ state = PSDISPLAYSTATE_ACCEPTING_SCENE_BYTE
    /\ Transfer(PSDISPLAYSCENE_SPLASH)

SpecBitmap == InitBitmap /\ [][NextBitmap]_vars

\* the splash scene has been drawn
SplashDrawn == rx = << PSDISPLAYCMD0_DRAW_SCENE, PSDISPLAYSCENE_SPLASH >>

\* the cell is in the splash rectangle
InSplash(index) ==
    /\ index \div SNOWY_BYTES_PER_ROW \in
           SPLASH_Y_OFFSET .. SPLASH_Y_OFFSET + SPLASH_HEIGHT - 1
    /\ index % SNOWY_BYTES_PER_ROW \in
           SPLASH_X_OFFSET .. SPLASH_X_OFFSET + SPLASH_WIDTH - 1

\* the number of the pixel of the bitmap that lands in the cell
SplashPixel(index) ==
    ((index \div SNOWY_BYTES_PER_ROW) - SPLASH_Y_OFFSET) * SPLASH_WIDTH
        + ((index % SNOWY_BYTES_PER_ROW) - SPLASH_X_OFFSET)

UnknownSceneKeepsFramebuffer ==
    (/\ cmd_set = PSDISPLAY_CMD_SET_0
     /\ state = PSDISPLAYSTATE_ACCEPTING_SCENE_BYTE
     /\ ~cs_value /\ ~aborted) =>
    \A sc \in PSDISPLAYSCENE_ERROR + 1 .. 255 :
        LET t == ps_display_transfer(dev, sc)
        IN /\ t.scene = sc
           /\ t.framebuffer = framebuffer
           /\ ~t.fb_overrun
           /\ t.redraw
           /\ t.state = PSDISPLAYSTATE_ACCEPTING_CMD
           /\ t.intn_output = IRQ_LOW
           /\ ~t.aborted

\* scene 4 has been asked for over the Update scene, which is still there
UnknownSceneKeepsFramebufferWitness ==
    /\ cmd_set = PSDISPLAY_CMD_SET_0
    /\ rx = << PSDISPLAYCMD0_DRAW_SCENE, PSDISPLAYSCENE_ERROR + 1 >>
    /\ scene = PSDISPLAYSCENE_ERROR + 1
    /\ fb0 = [i \in 0 .. FB_SIZE - 1 |-> SNOWY_COLOR_GREEN]
    /\ framebuffer = fb0
    /\ redraw
    /\ state = PSDISPLAYSTATE_ACCEPTING_CMD
    /\ intn_output = IRQ_LOW

\* C22: under the second dialect in ACCEPTING_CMD, FRAME_BEGIN leaves the
\* state ACCEPTING_CMD and changes neither the framebuffer nor the redraw
\* flag; FRAME_DATA moves the state to ACCEPTING_LINENO; FRAME_END sets the
\* redraw flag, leaves the state ACCEPTING_CMD and signals done; and the
\* first level that each of the three drives on the busy/done pin is busy.
FrameOpcodes ==
    (/\ cmd_set = PSDISPLAY_CMD_SET_1
     /\ state = PSDISPLAYSTATE_ACCEPTING_CMD
     /\ ~cs_value /\ ~aborted) =>
    LET After(op) == Left(dev, ps_display_transfer(Entered(dev), op))
        begin == After(PSDISPLAYCMD1_FRAME_BEGIN)
        data == After(PSDISPLAYCMD1_FRAME_DATA)
        end == After(PSDISPLAYCMD1_FRAME_END)
    IN /\ begin.state = PSDISPLAYSTATE_ACCEPTING_CMD
       /\ begin.framebuffer = framebuffer
       /\ begin.redraw = redraw
       /\ begin.intn_first = IRQ_HIGH
       /\ data.state = PSDISPLAYSTATE_ACCEPTING_LINENO
       /\ data.intn_first = IRQ_HIGH
       /\ end.redraw
       /\ end.state = PSDISPLAYSTATE_ACCEPTING_CMD
       /\ end.intn_output = IRQ_LOW
       /\ end.intn_first = IRQ_HIGH
       /\ end.framebuffer = framebuffer

\* FRAME_END has been received as the second opcode: the pin was driven to
\* busy, then to done
FrameOpcodesWitness ==
    /\ cmd_set = PSDISPLAY_CMD_SET_1
    /\ ncmd = 2
    /\ rx = << PSDISPLAYCMD1_FRAME_END >>
    /\ cmd = PSDISPLAYCMD1_FRAME_END
    /\ state = PSDISPLAYSTATE_ACCEPTING_CMD
    /\ redraw
    /\ intn_first = IRQ_HIGH
    /\ intn_output = IRQ_LOW
    /\ ~cs_value

\* C23: in every reachable state the decode state and the dialect agree:
\* outside PROGRAMMING the dialect is the first or the second one, never
\* unknown; ACCEPTING_PARAM and ACCEPTING_SCENE_BYTE occur under the first
\* dialect only, ACCEPTING_LINENO and ACCEPTING_DATA under the second only;
\* and the abort on an unknown dialect is never reached.
StateAgreesWithDialect ==
    /\ state # PSDISPLAYSTATE_PROGRAMMING =>
           cmd_set \in {PSDISPLAY_CMD_SET_0, PSDISPLAY_CMD_SET_1}
    /\ state \in {PSDISPLAYSTATE_ACCEPTING_PARAM,
                  PSDISPLAYSTATE_ACCEPTING_SCENE_BYTE} =>
           cmd_set = PSDISPLAY_CMD_SET_0
    /\ state \in {PSDISPLAYSTATE_ACCEPTING_LINENO,
                  PSDISPLAYSTATE_ACCEPTING_DATA} =>
           cmd_set = PSDISPLAY_CMD_SET_1
    /\ ~aborted

\* a device programmed with a stream that holds no date has left
\* PROGRAMMING and has taken the FRAME_DATA opcode
StateAgreesWithDialectWitness ==
    /\ detect_in = IMAGE_NO_DATE
    /\ ndetect = 1
    /\ cmd_set = PSDISPLAY_CMD_SET_1
    /\ state = PSDISPLAYSTATE_ACCEPTING_LINENO
    /\ rx = << PSDISPLAYCMD1_FRAME_DATA >>
    /\ ~aborted

\* C24: in every reachable state in which a parameter, a scene byte or a
\* column is partly received (ACCEPTING_PARAM, ACCEPTING_SCENE_BYTE,
\* ACCEPTING_DATA) the busy/done pin holds the level that the opcode or the
\* column index byte drove last, which is busy (high): no callback has
\* signalled done since.
BusyWhilePartlyReceived ==
    state \in {PSDISPLAYSTATE_ACCEPTING_PARAM,
               PSDISPLAYSTATE_ACCEPTING_SCENE_BYTE,
               PSDISPLAYSTATE_ACCEPTING_DATA} =>
        /\ intn_first = IRQ_HIGH
        /\ intn_output = intn_first

\* all the bytes but the last of a second column have been received
BusyWhilePartlyReceivedWitness ==
    /\ state = PSDISPLAYSTATE_ACCEPTING_DATA
    /\ ncmd = 1
    /\ Len(rx) = SNOWY_LINE_DATA_LEN
    /\ rx[1] = 1
    /\ \A row \in 0 .. SNOWY_NUM_ROWS - 1 :
           fb0[row * SNOWY_BYTES_PER_ROW] # 0
    /\ framebuffer # fb0
    /\ intn_output = IRQ_HIGH

\* the states of a frame transfer
InFrame ==
    state \in {PSDISPLAYSTATE_ACCEPTING_LINENO, PSDISPLAYSTATE_ACCEPTING_DATA}

\* byte values handed over during a frame transfer: the three opcodes of
\* the second dialect and the last byte value
FrameBytes ==
    {PSDISPLAYCMD1_FRAME_BEGIN, PSDISPLAYCMD1_FRAME_DATA,
     PSDISPLAYCMD1_FRAME_END, 255}

\* C25: once the second dialect has entered ACCEPTING_LINENO no byte
\* transfer returns the state to ACCEPTING_CMD: a byte, whatever its value
\* and the level of chip select, leaves the state ACCEPTING_LINENO or
\* ACCEPTING_DATA, and the only steps that leave the two states are the
\* release of chip select and the assertion of reset; FRAME_END is therefore
\* dispatched only after one of them.
FrameHeldUntilRelease ==
    /\ [](InFrame =>
            \A data \in FrameBytes :
                LET t == ps_display_transfer(dev, data)
                IN /\ t.state \in {PSDISPLAYSTATE_ACCEPTING_LINENO,
                                   PSDISPLAYSTATE_ACCEPTING_DATA}
                   /\ t.cmd = cmd
                   /\ t.redraw = redraw)
    /\ [][InFrame => (InFrame' \/ SetCs(TRUE) \/ ResetPin(FALSE))]_vars

\* the byte after a complete column has the value of FRAME_END: it was
\* taken as a column index, and the frame transfer goes on
FrameHeldUntilReleaseWitness ==
    /\ cmd_set = PSDISPLAY_CMD_SET_1
    /\ ncmd = 1
    /\ cmd = PSDISPLAYCMD1_FRAME_DATA
    /\ state = PSDISPLAYSTATE_ACCEPTING_DATA
    /\ rx = << PSDISPLAYCMD1_FRAME_END >>
    /\ \E index \in 0 .. FB_SIZE - 1 : fb0[index] # 0
    /\ ~redraw

\* a scene byte is received after DRAW_SCENE: the scene is executed
SceneExecuted ==
    /\ cmd_set = PSDISPLAY_CMD_SET_0
    /\ state = PSDISPLAYSTATE_ACCEPTING_SCENE_BYTE
    /\ ~cs_value
    /\ \E sc \in SceneBytes : Transfer(sc)

\* FRAME_END is dispatched
FrameEnded ==
    /\ cmd_set = PSDISPLAY_CMD_SET_1
    /\ state = PSDISPLAYSTATE_ACCEPTING_CMD
    /\ ~cs_value
    /\ Transfer(PSDISPLAYCMD1_FRAME_END)

\* C26: the redraw flag becomes true only when a scene is executed, when
\* FRAME_END is dispatched or when the host invalidates the display, and
\* becomes false only when the renderer completes an update; a pixel byte
\* received in ACCEPTING_DATA leaves it as it is, and an update asked for
\* while the flag is false changes nothing.
RedrawFlagChanges ==
    /\ [](~redraw => ps_display_update_display(dev) = dev)
    /\ []((state = PSDISPLAYSTATE_ACCEPTING_DATA /\ ~cs_value) =>
            \A data \in {SNOWY_COLOR_BLACK, SNOWY_COLOR_RED, 255} :
                ps_display_transfer(dev, data).redraw = redraw)
    /\ [][/\ (~redraw /\ redraw') =>
                (InvalidateDisplay \/ SceneExecuted \/ FrameEnded)
          /\ (redraw /\ ~redraw') => UpdateDisplay]_vars

\* a frame was ended and the renderer has then completed an update, with the
\* column that the frame transferred in the framebuffer
RedrawFlagChangesWitness ==
    /\ cmd_set = PSDISPLAY_CMD_SET_1
    /\ rx = << PSDISPLAYCMD1_FRAME_END >>
    /\ cmd = PSDISPLAYCMD1_FRAME_END
    /\ state = PSDISPLAYSTATE_ACCEPTING_CMD
    /\ ~cs_value
    /\ \E index \in 0 .. FB_SIZE - 1 : framebuffer[index] # 0
    /\ ~redraw

=============================================================================
